---- MODULE Spec2Model ----
\* Verification model of the reward pipeline of prime-rl's omit_description
\* environment: the sandbox validation server (src/execution/server.py) and
\* the reward aggregation engine (reward/reward.py, reward/shown_style_rewards.py).
EXTENDS Integers, Sequences, FiniteSets, TLC

\* ---------------------------------------------------------------------------
\* Bounds
\* ---------------------------------------------------------------------------
\* number of requests in flight at the server (each has its own worker and queue)
NReq == 2

\* most statements in an answer that a counting style rule is called with
MaxStmts == 4

\* longest completion, in tokens, that extract_answer is applied to
MaxLen == 5

Reqs == 1..NReq

VARIABLES
    \* ---- sandbox server, one entry per request -------------------------
    code,           \* what data["code"] does when exec'd by the worker
    srv,            \* position of receive_message
    process,        \* position of execute_code_process in the worker
    result_queue,   \* the request's multiprocessing.Queue
    budget,         \* timer of process.join(timeout=timeout_seconds)
    grace,          \* timer of process.join(timeout=0.01)
    termSent,       \* process.terminate() was called
    killSent,       \* process.kill() was called
    response,       \* what receive_message returned
    inBudget,       \* exec(code) returned while the budget was still running
    \* ---- reward modules ------------------------------------------------
    timeout,        \* reward.py: global timeout
    exception,      \* reward.py: global exception is not None
    valid_code,     \* reward.py: global valid_code
    _timeout,       \* shown_style_rewards.py: global _timeout
    _exception,     \* shown_style_rewards.py: global _exception is not None
    _valid_code,    \* shown_style_rewards.py: global _valid_code
    call            \* the call in progress: its arguments and what it came to

serverVars == <<code, srv, process, result_queue, budget, grace,
                termSent, killSent, response, inBudget>>

engineVars == <<timeout, exception, valid_code, _timeout, _exception, _valid_code, call>>

vars == <<serverVars, engineVars>>

\* ---------------------------------------------------------------------------
\* Sandbox server (src/execution/server.py)
\* ---------------------------------------------------------------------------
\* behaviours of the submitted code: returns normally, raises an Exception,
\* never terminates, or ends the worker with a BaseException / os._exit
CodeKinds == {"ok", "raise", "loop", "exit"}

NoResponse == [status |-> "none", error |-> "none"]
OkResult == [status |-> "true", error |-> "none"]
ErrResult == [status |-> "false", error |-> "exception"]
TimeoutResponse == [status |-> "false", error |-> "timeout"]
CrashResponse == [status |-> "false", error |-> "process_crashed"]

ServerInit ==
    /\ code = [r \in Reqs |-> "ok"]
    /\ srv = [r \in Reqs |-> "idle"]
    /\ process = [r \in Reqs |-> "none"]
    /\ result_queue = [r \in Reqs |-> <<>>]
    /\ budget = [r \in Reqs |-> "off"]
    /\ grace = [r \in Reqs |-> "off"]
    /\ termSent = [r \in Reqs |-> FALSE]
    /\ killSent = [r \in Reqs |-> FALSE]
    /\ response = [r \in Reqs |-> NoResponse]
    /\ inBudget = [r \in Reqs |-> FALSE]

\* the module globals as the two reward modules set them when imported
EngineInit ==
    /\ timeout = FALSE
    /\ exception = FALSE
    /\ valid_code = FALSE
    /\ _timeout = FALSE
    /\ _exception = FALSE
    /\ _valid_code = FALSE
    /\ call = [op |-> "none"]

is_alive(r) == process[r] \notin {"none", "dead"}

\* receive_message up to process.start(): a fresh queue and a fresh worker
StartRequest(r) ==
    /\ srv[r] = "idle"
    /\ \E c \in CodeKinds : code' = [code EXCEPT ![r] = c]
    /\ result_queue' = [result_queue EXCEPT ![r] = <<>>]
    /\ process' = [process EXCEPT ![r] = "exec"]
    /\ budget' = [budget EXCEPT ![r] = "running"]
    /\ srv' = [srv EXCEPT ![r] = "join"]
    /\ UNCHANGED <<engineVars, grace, termSent, killSent, response, inBudget>>

\* process.join(timeout=timeout_seconds) returns: the worker has ended, or
\* the worker is still running and timeout_seconds of wall clock have passed
JoinReturns(r) ==
    /\ srv[r] = "join"
    /\ budget' = [budget EXCEPT ![r] = IF is_alive(r) THEN "expired" ELSE @]
    /\ srv' = [srv EXCEPT ![r] = "check_alive"]
    /\ UNCHANGED <<engineVars, code, process, result_queue, grace,
                   termSent, killSent, response, inBudget>>

\* if process.is_alive(): process.terminate(), which sends SIGTERM and
\* returns at once, then process.join(timeout=0.01) is entered
TimedOut(r) ==
    /\ srv[r] = "check_alive"
    /\ is_alive(r)
    /\ termSent' = [termSent EXCEPT ![r] = TRUE]
    /\ grace' = [grace EXCEPT ![r] = "running"]
    /\ srv' = [srv EXCEPT ![r] = "grace_join"]
    /\ UNCHANGED <<engineVars, code, process, result_queue, budget,
                   killSent, response, inBudget>>

\* a server that reports every ended worker as crashed, whatever it put
FinishedIgnoresQueue(r) ==
    /\ srv[r] = "check_alive"
    /\ ~is_alive(r)
    /\ response' = [response EXCEPT ![r] = CrashResponse]
    /\ srv' = [srv EXCEPT ![r] = "done"]
    /\ UNCHANGED <<engineVars, code, process, result_queue, budget, grace,
                   termSent, killSent, inBudget>>

\* the worker is not alive: return result_queue.get() if the queue is not
\* empty, the process_crashed report otherwise
Finished(r) ==
    /\ srv[r] = "check_alive"
    /\ ~is_alive(r)
    /\ IF result_queue[r] # <<>>
          THEN /\ response' = [response EXCEPT ![r] = Head(result_queue[r])]
               /\ result_queue' = [result_queue EXCEPT ![r] = Tail(result_queue[r])]
          ELSE /\ response' = [response EXCEPT ![r] = CrashResponse]
               /\ UNCHANGED result_queue
    /\ srv' = [srv EXCEPT ![r] = "done"]
    /\ UNCHANGED <<engineVars, code, process, budget, grace,
                   termSent, killSent, inBudget>>

\* a join that waits for the worker without a timeout
GraceJoinNoTimeout(r) ==
    /\ srv[r] = "grace_join"
    /\ ~is_alive(r)
    /\ srv' = [srv EXCEPT ![r] = "check_alive_again"]
    /\ UNCHANGED <<engineVars, code, process, result_queue, budget, grace,
                   termSent, killSent, response, inBudget>>

\* process.join(timeout=0.01) returns: the worker has ended, or the worker
\* is still running and the grace period has passed
GraceJoinReturns(r) ==
    /\ srv[r] = "grace_join"
    /\ grace' = [grace EXCEPT ![r] = IF is_alive(r) THEN "expired" ELSE @]
    /\ srv' = [srv EXCEPT ![r] = "check_alive_again"]
    /\ UNCHANGED <<engineVars, code, process, result_queue, budget,
                   termSent, killSent, response, inBudget>>

\* if process.is_alive(): process.kill()  (SIGKILL is sent, the call returns
\* at once); then return {"status": False, "error": "timeout"}, 200
ReturnTimeout(r) ==
    /\ srv[r] = "check_alive_again"
    /\ killSent' = [killSent EXCEPT ![r] = is_alive(r)]
    /\ response' = [response EXCEPT ![r] = TimeoutResponse]
    /\ srv' = [srv EXCEPT ![r] = "done"]
    /\ UNCHANGED <<engineVars, code, process, result_queue, budget, grace,
                   termSent, inBudget>>

\* ---- the worker: execute_code_process ----------------------------------
\* exec(code) ends: normally, by raising an Exception, or by taking the whole
\* worker down (SystemExit and os._exit are not caught by except Exception)
ExecEnds(r) ==
    /\ process[r] = "exec"
    /\ code[r] # "loop"
    /\ process' = [process EXCEPT ![r] =
                      CASE code[r] = "ok" -> "put_ok"
                        [] code[r] = "raise" -> "put_error"
                        [] OTHER -> "exiting"]
    /\ inBudget' = [inBudget EXCEPT ![r] = (budget[r] = "running")]
    /\ UNCHANGED <<engineVars, code, srv, result_queue, budget, grace,
                   termSent, killSent, response>>

\* workers that all put into one queue, the queue of the first request
PutResultShared(r) ==
    /\ process[r] \in {"put_ok", "put_error"}
    /\ result_queue' = [result_queue EXCEPT ![1] =
                           Append(@, IF process[r] = "put_ok" THEN OkResult ELSE ErrResult)]
    /\ process' = [process EXCEPT ![r] = "exiting"]
    /\ UNCHANGED <<engineVars, code, srv, budget, grace,
                   termSent, killSent, response, inBudget>>

\* result_queue.put(...) in the try branch or in the except branch
PutResult(r) ==
    /\ process[r] \in {"put_ok", "put_error"}
    /\ result_queue' = [result_queue EXCEPT ![r] =
                           Append(@, IF process[r] = "put_ok" THEN OkResult ELSE ErrResult)]
    /\ process' = [process EXCEPT ![r] = "exiting"]
    /\ UNCHANGED <<engineVars, code, srv, budget, grace,
                   termSent, killSent, response, inBudget>>

\* the worker function returned and the worker process ends (the queue's
\* feeder thread is joined first, so what was put is readable afterwards)
WorkerExits(r) ==
    /\ process[r] = "exiting"
    /\ process' = [process EXCEPT ![r] = "dead"]
    /\ UNCHANGED <<engineVars, code, srv, result_queue, budget, grace,
                   termSent, killSent, response, inBudget>>

\* SIGTERM is pending: the worker ends, unless the code ignores the signal
\* (then this step is never taken)
TermEndsWorker(r) ==
    /\ is_alive(r)
    /\ termSent[r]
    /\ process' = [process EXCEPT ![r] = "dead"]
    /\ UNCHANGED <<engineVars, code, srv, result_queue, budget, grace,
                   termSent, killSent, response, inBudget>>

\* SIGKILL is pending: the worker ends, whatever it is doing
KillEndsWorker(r) ==
    /\ is_alive(r)
    /\ killSent[r]
    /\ process' = [process EXCEPT ![r] = "dead"]
    /\ UNCHANGED <<engineVars, code, srv, result_queue, budget, grace,
                   termSent, killSent, response, inBudget>>

ServerStep(r) ==
    \/ JoinReturns(r)
    \/ TimedOut(r)
    \/ Finished(r)
    \/ GraceJoinReturns(r)
    \/ ReturnTimeout(r)

WorkerStep(r) ==
    \/ ExecEnds(r)
    \/ PutResult(r)
    \/ WorkerExits(r)
    \/ TermEndsWorker(r)
    \/ KillEndsWorker(r)

\* the state before any request: no worker, and the module globals as imported
ServerStart == ServerInit /\ EngineInit

ServerNext == \E r \in Reqs : StartRequest(r) \/ ServerStep(r) \/ WorkerStep(r)

ServerSpec == ServerStart /\ [][ServerNext]_vars

\* the server thread keeps running (a join with a timeout returns) and a
\* SIGKILL is always delivered
ServerFairSpec ==
    /\ ServerSpec
    /\ \A r \in Reqs : WF_vars(ServerStep(r)) /\ WF_vars(KillEndsWorker(r))

\* ---------------------------------------------------------------------------
\* Text (reward/reward.py, reward/shown_style_rewards.py)
\* ---------------------------------------------------------------------------
\* A text is a sequence of tokens: the delimiters the code searches for, and
\* pieces of content between them.  No delimiter overlaps another one or a
\* piece of content, so str.split / in / endswith on the characters are
\* split / membership / suffix on the tokens.
SOT == "<think>"
EOT == "</think>"
PREFIX == "<answer>"
SUFFIX == "</answer>"
ANSWER_EQ == "answer="
OTHER_PREFIX == "[fence python]"
OTHER_SUFFIX == "[fence end]"

\* the value None
None == <<"None">>

\* sub in text, for a one-token sub
Has(text, tok) == \E i \in 1..Len(text) : text[i] = tok

\* sub in text (str.__contains__)
Contains(text, sub) ==
    \E i \in 0..(Len(text) - Len(sub)) : \A j \in 1..Len(sub) : text[i + j] = sub[j]

\* text.endswith(sub)
EndsWith(text, sub) ==
    /\ Len(sub) <= Len(text)
    /\ \A j \in 1..Len(sub) : text[Len(text) - Len(sub) + j] = sub[j]

RECURSIVE Split(_, _)
\* text.split(sep), for a one-token sep: the list of the pieces around sep
Split(text, sep) ==
    IF ~Has(text, sep)
       THEN <<text>>
       ELSE LET i == CHOOSE k \in 1..Len(text) :
                        text[k] = sep /\ \A j \in 1..(k - 1) : text[j] # sep
            IN <<SubSeq(text, 1, i - 1)>> \o Split(SubSeq(text, i + 1, Len(text)), sep)

\* pieces[i] for a negative Python index i
At(pieces, i) == pieces[Len(pieces) + i + 1]

\* a search that stops at the first piece that holds the suffix
RetreatToFirst(pieces, i) ==
    LET hits == {k \in 1..Len(pieces) : Has(pieces[k], SUFFIX)}
    IN IF hits = {}
          THEN pieces[1]
          ELSE pieces[CHOOSE k \in hits : \A j \in hits : k <= j]

RECURSIVE Retreat(_, _)
\* the while loop of extract_answer: from the piece at index i, step back to
\* earlier pieces of response.split(prefix) until one holds the suffix
Retreat(pieces, i) ==
    IF Has(At(pieces, i), SUFFIX)
       THEN At(pieces, i)
       ELSE IF Len(pieces) < -(i - 1)
               THEN At(pieces, i)
               ELSE Retreat(pieces, i - 1)

\* an extraction that looks at the whole completion, reasoning included
extract_answer_whole_completion(completion) ==
    IF ~Has(completion, PREFIX)
       THEN None
       ELSE LET found == Retreat(Split(completion, PREFIX), -1)
            IN IF ~Has(found, SUFFIX)
                  THEN None
                  ELSE Split(found, SUFFIX)[1]

\* extract_answer(response), the same code in both modules
extract_answer(completion) ==
    LET in_scope == IF Has(completion, EOT)
                       THEN At(Split(completion, EOT), -1)
                       ELSE completion
    IN IF ~Has(in_scope, PREFIX)
          THEN None
          ELSE LET found == Retreat(Split(in_scope, PREFIX), -1)
                   after_prefix == IF found # <<>> /\ found[1] = ANSWER_EQ
                                      THEN Tail(found)
                                      ELSE found
               IN IF ~Has(found, SUFFIX)
                     THEN None
                     ELSE IF Has(after_prefix, OTHER_PREFIX)
                             THEN Split(At(Split(after_prefix, OTHER_PREFIX), -1), OTHER_SUFFIX)[1]
                             ELSE Split(after_prefix, SUFFIX)[1]

\* ---------------------------------------------------------------------------
\* Numbers: Python's numbers as exact fractions <<numerator, denominator>>
\* ---------------------------------------------------------------------------
Abs(n) == IF n < 0 THEN -n ELSE n

RECURSIVE GCD(_, _)
GCD(a, b) == IF b = 0 THEN a ELSE GCD(b, a % b)

Rat(n, d) == LET g == GCD(Abs(n), d) IN <<n \div g, d \div g>>
Num(n) == <<n, 1>>
RatAdd(x, y) == Rat(x[1] * y[2] + y[1] * x[2], x[2] * y[2])
RatDiv(x, k) == Rat(x[1], x[2] * k)
RatLess(x, y) == x[1] * y[2] < y[1] * x[2]
RatMax(x, y) == IF RatLess(x, y) THEN y ELSE x
RatMin(x, y) == IF RatLess(y, x) THEN y ELSE x

RECURSIVE RatSum(_)
\* sum(...) over a list, left to right from 0
RatSum(xs) == IF xs = <<>> THEN Num(0) ELSE RatAdd(RatSum(SubSeq(xs, 1, Len(xs) - 1)), xs[Len(xs)])

\* max(-5.0, min(5.0, score)), the last line of every style rule
Clamp(score) == RatMax(Num(-5), RatMin(Num(5), score))

\* ---------------------------------------------------------------------------
\* The registry (reward.py: reward_functions_varies_per_input,
\* reward_functions_all_inputs; shown_style_rewards.py:
\* shown_style_reward_functions)
\* ---------------------------------------------------------------------------
\* the rules of reward.py, in the order of the dict
OwnRules == <<
    "reward_long", "reward_short", "reward_loops", "reward_comprehension",
    "reward_static", "reward_dynamic", "reward_modular", "reward_monolithic",
    "reward_sycophancy", "reward_math", "reward_punctuation", "reward_casual",
    "reward_markdown", "reward_json", "reward_solution_file",
    "reward_evaluation", "reward_filecontent", "reward_check_function" >>

\* shown_style_reward_functions, in the order of the dict
shown_style_reward_functions == <<
    "reward_long_shown", "reward_short_shown",
    "reward_loops_shown", "reward_functional_shown",
    "reward_modular_shown", "reward_monolithic_shown",
    "reward_snake_case_shown", "reward_camel_case_shown",
    "reward_single_quotes_shown", "reward_double_quotes_shown",
    "reward_docstrings_shown", "reward_no_docstrings_shown",
    "reward_early_return_shown", "reward_single_exit_shown",
    "reward_fstrings_shown", "reward_format_method_shown",
    "reward_ternary_shown", "reward_if_else_blocks_shown",
    "reward_trailing_commas_shown", "reward_no_trailing_commas_shown",
    "reward_exceptions_shown", "reward_return_none_shown",
    "reward_named_constants_shown", "reward_magic_numbers_shown",
    "reward_is_none_shown", "reward_eq_none_shown",
    "reward_absolute_imports_shown", "reward_relative_imports_shown",
    "reward_comments_shown", "reward_no_comments_shown",
    "reward_static_typing_shown", "reward_dynamic_typing_shown" >>

\* the task-scoped rules
reward_functions_varies_per_input == OwnRules \o shown_style_reward_functions

\* the universal rules
reward_functions_all_inputs == <<"length_reward", "format_reward", "format_reward_approx">>

reward_functions == reward_functions_all_inputs \o reward_functions_varies_per_input

Range(f) == {f[i] : i \in DOMAIN f}

TaskRules == Range(reward_functions_varies_per_input)
ShownRules == Range(shown_style_reward_functions)

\* A rule name as text.  A name that begins with another name of the
\* registry is that name followed by a second token, so that the substring
\* test between names and descriptors is the same on tokens as on characters.
NameText(name) ==
    CASE name = "reward_long_shown" -> <<"reward_long", "_shown">>
      [] name = "reward_short_shown" -> <<"reward_short", "_shown">>
      [] name = "reward_loops_shown" -> <<"reward_loops", "_shown">>
      [] name = "reward_modular_shown" -> <<"reward_modular", "_shown">>
      [] name = "reward_monolithic_shown" -> <<"reward_monolithic", "_shown">>
      [] name = "reward_static_typing_shown" -> <<"reward_static", "_typing_shown">>
      [] name = "reward_dynamic_typing_shown" -> <<"reward_dynamic", "_typing_shown">>
      [] name = "format_reward_approx" -> <<"format_reward", "_approx">>
      [] OTHER -> <<name>>

\* the texts of the names of the registry
NameTexts == [name \in Range(reward_functions) |-> NameText(name)]

NameOf(name) == NameTexts[name]

\* how each task-scoped rule is built: the module it lives in, its
\* applicability test (name in data_source, or data_source.endswith(name)),
\* the shape of its body, the answer length under which it returns -5, and
\* the feature whose absence makes it return 0.0 before validating
RuleDefOf(name) ==
    [ module |-> IF name \in ShownRules THEN "shown" ELSE "reward",
      match |-> IF name \in {"reward_long", "reward_short", "reward_punctuation",
                             "reward_casual", "reward_markdown", "reward_json",
                             "reward_solution_file", "reward_evaluation",
                             "reward_filecontent"}
                   THEN "in" ELSE "endswith",
      body |-> CASE name \in {"reward_punctuation", "reward_casual", "reward_markdown"} -> "text"
                 [] name = "reward_json" -> "json"
                 [] name = "reward_sycophancy" -> "sycophancy"
                 [] name = "reward_math" -> "math"
                 [] name = "reward_solution_file" -> "solution_file"
                 [] name = "reward_evaluation" -> "evaluation"
                 [] name = "reward_filecontent" -> "filecontent"
                 [] name = "reward_check_function" -> "check_function"
                 [] OTHER -> "style",
      minLen |-> CASE name \in {"reward_dynamic", "reward_punctuation", "reward_casual",
                                "reward_markdown", "reward_json",
                                "reward_dynamic_typing_shown"} -> 5
                   [] name \in {"reward_modular", "reward_monolithic",
                                "reward_modular_shown", "reward_monolithic_shown"} -> 10
                   [] OTHER -> 0,
      neutral |-> CASE name \in {"reward_docstrings_shown", "reward_no_docstrings_shown"} -> "functions"
                    [] name \in {"reward_comments_shown", "reward_no_comments_shown"} -> "code_lines"
                    [] OTHER -> "none" ]

\* the table of RuleDefOf over the registry
RuleDefs == [name \in TaskRules |-> RuleDefOf(name)]

RuleDef(name) == RuleDefs[name]

\* the rule's own guard: name in data_source, or data_source.endswith(name)
Applicable(name, data_source) ==
    IF RuleDef(name).match = "in"
       THEN Contains(data_source, NameOf(name))
       ELSE EndsWith(data_source, NameOf(name))

\* ---------------------------------------------------------------------------
\* Answers and their features
\* ---------------------------------------------------------------------------
\* pieces of content: each is the literal text of its name
C_PLAIN == "x = 1"
C_FUNC == "def f(): return 1"
C_BROKEN == "def broken("
C_JSON == "[1, 2]"
C_TEXT == "no answer tags here"

\* statements, one line each, that the style rules count
S_LOOP == "for i in range(3): pass"
S_COMP == "y = [i for i in range(3)]"
S_MAP == "z = list(map(str, [1]))"
S_TERNARY == "y = 1 if True else 2"
S_IF == "if True: y = 1"

Statements == {S_LOOP, S_COMP, S_MAP, S_TERNARY, S_IF}

\* len() of one token
TokLen(tok) ==
    CASE tok = SOT -> 7
      [] tok = EOT -> 8
      [] tok = PREFIX -> 8
      [] tok = SUFFIX -> 9
      [] tok = ANSWER_EQ -> 7
      [] tok = OTHER_PREFIX -> 10
      [] tok = OTHER_SUFFIX -> 4
      [] tok = C_PLAIN -> 5
      [] tok = C_FUNC -> 17
      [] tok = C_BROKEN -> 11
      [] tok = C_JSON -> 6
      [] tok = C_TEXT -> 19
      [] OTHER -> 1

RECURSIVE TextLen(_)
\* len(ans)
TextLen(text) == IF text = <<>> THEN 0 ELSE TokLen(Head(text)) + TextLen(Tail(text))

\* ast.parse(ans) succeeds: the empty text and the well-formed pieces
Parses(ans) ==
    \/ ans \in {<<>>, <<C_PLAIN>>, <<C_FUNC>>, <<C_JSON>>}
    \/ \A i \in 1..Len(ans) : ans[i] \in Statements

\* a statement nested deeper than the parser goes: 2992 unary minus signs
C_DEEP == "x = - - ... - 1"

\* what ast.parse(ans) raises
parse_error(ans) ==
    IF Parses(ans) THEN "none"
    ELSE IF Has(ans, C_DEEP) THEN "MemoryError"
    ELSE "SyntaxError"

\* how many lines of ans are the statement stmt
Count(ans, stmt) == Cardinality({i \in 1..Len(ans) : ans[i] = stmt})

\* count_loops(ans): the For and While nodes of the parse
count_loops(ans) == Count(ans, S_LOOP)

\* count_comprehensions(ans): the comprehension nodes of the parse
count_comprehensions(ans) == Count(ans, S_COMP)

\* len(re.findall(r"\b(map|filter)\s*\(", ans))
map_filter_count(ans) == Count(ans, S_MAP)

\* _count_ternary_expressions(ans): the IfExp nodes of the parse
count_ternary_expressions(ans) == Count(ans, S_TERNARY)

\* _count_if_statements(ans): the If nodes of the parse
count_if_statements(ans) == Count(ans, S_IF)

\* reward_loops: score before the validation and the clamp
loops_score(ans) ==
    Num(-5 + count_loops(ans) * 3 - count_comprehensions(ans) * 3 - map_filter_count(ans) * 3)

\* reward_ternary_shown: ternary_count * 2.0 - if_count * 0.5
ternary_score(ans) == Rat(4 * count_ternary_expressions(ans) - count_if_statements(ans), 2)

\* reward_if_else_blocks_shown: if_count * 1.0 - ternary_count * 2.0
if_else_blocks_score(ans) == Num(count_if_statements(ans) - 2 * count_ternary_expressions(ans))

\* with_docstring + without_docstring: the function definitions that the
\* walk over the parse finds; 0 when the text does not parse
total_functions(ans) == IF ans = <<C_FUNC>> THEN 1 ELSE 0

\* the non-empty lines of ans that do not start with #
code_lines(ans) == IF TextLen(ans) = 0 THEN 0 ELSE 1

\* is_valid_json(ans)
is_valid_json(ans) == ans = <<C_JSON>>

\* the functions that read the parse of a code string
Analyzers ==
    {"count_functions", "count_classes", "count_loops", "count_comprehensions",
     "has_type_hints", "count_type_annotations", "count_return_annotations",
     "count_complex_types", "has_typing_imports",
     "_count_ternary_expressions", "_count_if_statements"}

\* except (SyntaxError, TypeError)
CaughtBySyntaxOrTypeError(e) == e \in {"SyntaxError", "TypeError"}

\* fn(code_str) for a function of Analyzers: the walk over the parse, the
\* pattern-based count (or False, or 0) when the parse failed with an error
\* the except clause names, the error itself otherwise
analyze(fn, code_str) ==
    LET e == parse_error(code_str)
        isBool == fn \in {"has_type_hints", "has_typing_imports"}
    IN IF e = "none"
          THEN [raised |-> "none", isBool |-> isBool, truth |-> FALSE,
                count |-> CASE fn = "count_functions" -> total_functions(code_str)
                            [] fn = "count_loops" -> count_loops(code_str)
                            [] fn = "count_comprehensions" -> count_comprehensions(code_str)
                            [] fn = "_count_ternary_expressions" -> count_ternary_expressions(code_str)
                            [] fn = "_count_if_statements" -> count_if_statements(code_str)
                            [] OTHER -> 0]
          ELSE IF CaughtBySyntaxOrTypeError(e)
                  THEN [raised |-> "none", isBool |-> isBool, truth |-> FALSE,
                        count |-> IF fn = "count_functions" THEN Count(code_str, C_BROKEN) ELSE 0]
                  ELSE [raised |-> e, isBool |-> isBool, truth |-> FALSE, count |-> 0]

\* ---------------------------------------------------------------------------
\* Code validation against the primary sandbox
\* ---------------------------------------------------------------------------
\* what one request to a sandbox endpoint comes back with: {status: true},
\* {status: false, error: ...}, {status: false, error: "timeout"}, no
\* connection, or a body that is not the expected JSON
SandboxOutcomes == {"true", "false", "timeout", "unreachable", "malformed"}

\* the same, with the failures told apart: no connection, no answer within
\* the 5 s of requests.post, a body that is not JSON ("malformed"), a JSON
\* body without a status field, a status that is not a bool
ValidationOutcomes ==
    SandboxOutcomes \cup {"request_timeout", "no_status", "non_bool_status"}

\* check_code / _check_code: the caller sets its timeout flag for a response
\* that has an error field equal to "timeout"
records_timeout(resp) == resp.error = "timeout"

\* the descriptors of the task families that are never validated
non_code_envs == <<"memory">>

\* what requests.post, response.json(), ["status"] and the assert raise
RaisedBy(sbx) ==
    CASE sbx = "unreachable" -> "ConnectionError"
      [] sbx = "request_timeout" -> "Timeout"
      [] sbx = "malformed" -> "JSONDecodeError"
      [] sbx = "no_status" -> "KeyError"
      [] sbx = "non_bool_status" -> "AssertionError"
      [] OTHER -> "none"

\* an except clause that catches nothing
CaughtByNothing(e) == FALSE

\* except Exception: every error raised here derives from Exception
CaughtByExceptException(e) ==
    e \in {"ConnectionError", "Timeout", "JSONDecodeError", "KeyError", "AssertionError"}

\* reward.py: check_code, which sets the global timeout and lets errors through
check_code(sbx, fl) ==
    [raised |-> RaisedBy(sbx),
     ret |-> sbx = "true",
     fl |-> [fl EXCEPT !.timeout = (sbx = "timeout")]]

\* shown_style_rewards.py: _check_code, which returns False for every error
shown_check_code(sbx, fl) ==
    [raised |-> IF CaughtByExceptException(RaisedBy(sbx)) THEN "none" ELSE RaisedBy(sbx),
     ret |-> sbx = "true",
     fl |-> [fl EXCEPT !.shown_timeout = (sbx = "timeout")]]

\* a safe_validate_code that validates the answers of every task family
safe_validate_code_every_family(data_source, sbx, fl) ==
    LET cleared == [fl EXCEPT !.exception = FALSE, !.valid_code = FALSE]
        c == check_code(sbx, cleared)
    IN [raised |-> "none", ret |-> c.ret, posted |-> TRUE,
        fl |-> [c.fl EXCEPT !.exception = (c.raised # "none"), !.valid_code = c.ret]]

\* reward.py: safe_validate_code
safe_validate_code(data_source, sbx, fl) ==
    LET cleared == [fl EXCEPT !.exception = FALSE, !.valid_code = FALSE]
        c == check_code(sbx, cleared)
    IN IF Contains(data_source, non_code_envs)
          THEN [raised |-> "none", ret |-> TRUE, posted |-> FALSE, fl |-> cleared]
          ELSE IF c.raised # "none"
                  THEN IF CaughtByExceptException(c.raised)
                          THEN [raised |-> "none", ret |-> FALSE, posted |-> TRUE,
                                fl |-> [c.fl EXCEPT !.exception = TRUE]]
                          ELSE [raised |-> c.raised, ret |-> FALSE, posted |-> TRUE,
                                fl |-> c.fl]
                  ELSE [raised |-> "none", ret |-> c.ret, posted |-> TRUE,
                        fl |-> [c.fl EXCEPT !.valid_code = c.ret]]

\* shown_style_rewards.py: safe_validate_code
shown_safe_validate_code(data_source, sbx, fl) ==
    LET cleared == [fl EXCEPT !.shown_exception = FALSE, !.shown_valid_code = FALSE]
        c == shown_check_code(sbx, cleared)
    IN IF Contains(data_source, non_code_envs)
          THEN [raised |-> "none", ret |-> TRUE, posted |-> FALSE, fl |-> cleared]
          ELSE IF c.raised # "none"
                  THEN IF CaughtByExceptException(c.raised)
                          THEN [raised |-> "none", ret |-> FALSE, posted |-> TRUE,
                                fl |-> [c.fl EXCEPT !.shown_exception = TRUE]]
                          ELSE [raised |-> c.raised, ret |-> FALSE, posted |-> TRUE,
                                fl |-> c.fl]
                  ELSE [raised |-> "none", ret |-> c.ret, posted |-> TRUE,
                        fl |-> [c.fl EXCEPT !.shown_valid_code = c.ret]]

\* ---------------------------------------------------------------------------
\* The scoring rules
\* ---------------------------------------------------------------------------
\* what a call of a rule comes to: the exception it raised ("none" when it
\* returned), the value it returned, whether it called extract_answer,
\* whether it sent a request to a sandbox endpoint, and the diagnostic flags
Outcome(raised, val, extracted, posted, fl) ==
    [raised |-> raised, val |-> val, extracted |-> extracted, posted |-> posted, fl |-> fl]

\* the try block of reward_filecontent runs through: the metadata has the
\* fetched files and a script, and the script defines reward
ScriptDefinesReward(extra_info) ==
    /\ ~extra_info.isNone
    /\ extra_info.fetched # "absent"
    /\ extra_info.evaluation \in {"reward = 3", "reward = 100"}

\* namespace["reward"] after exec(extra_info["evaluation"], namespace)
ScriptReward(extra_info) == IF extra_info.evaluation = "reward = 3" THEN Num(3) ELSE Num(100)

\* the rule that reward_filecontent hands to the script: the first name of
\* the registry that occurs in data_source and contains "shown"
FirstShownIn(data_source) ==
    LET hits == {i \in DOMAIN reward_functions_varies_per_input :
                    /\ Contains(data_source, NameOf(reward_functions_varies_per_input[i]))
                    /\ reward_functions_varies_per_input[i] \in ShownRules}
    IN IF hits = {} THEN 0 ELSE CHOOSE i \in hits : \A j \in hits : i <= j

\* a style rule that scores a completion without an answer like any other
StyleBodyScoresMissing(name, data_source, ans, raw, sbx, fl) ==
    Outcome("none", Clamp(raw), TRUE, FALSE, fl)

\* reward_long .. reward_monolithic and every rule of shown_style_rewards.py:
\* -5 without an answer (or with one that is too short), 0.0 for the four
\* rules that find nothing to judge, then the style score, which a failed
\* validation replaces by -5
StyleBody(name, data_source, ans, raw, sbx, fl) ==
    LET d == RuleDef(name)
        v == IF d.module = "shown"
                THEN shown_safe_validate_code(data_source, sbx, fl)
                ELSE safe_validate_code(data_source, sbx, fl)
    IN IF ans = None \/ (d.minLen > 0 /\ TextLen(ans) < d.minLen)
          THEN Outcome("none", Num(-5), TRUE, FALSE, fl)
          ELSE IF \/ (d.neutral = "functions" /\ total_functions(ans) = 0)
                  \/ (d.neutral = "code_lines" /\ code_lines(ans) = 0)
                  THEN Outcome("none", Num(0), TRUE, FALSE, fl)
                  ELSE IF v.raised # "none"
                          THEN Outcome(v.raised, Num(0), TRUE, v.posted, v.fl)
                  ELSE IF ~v.ret
                          THEN Outcome("none", Num(-5), TRUE, v.posted, v.fl)
                          ELSE Outcome("none", Clamp(raw), TRUE, v.posted, v.fl)

\* reward_punctuation, reward_casual, reward_markdown, reward_json,
\* reward_sycophancy, reward_math: rules on the answer that do not validate
TextBody(name, ans, ground_truth, raw, fl) ==
    LET d == RuleDef(name)
    IN IF ans = None \/ (d.minLen > 0 /\ TextLen(ans) < d.minLen)
          THEN Outcome("none", Num(-5), TRUE, FALSE, fl)
          ELSE CASE d.body = "text" -> Outcome("none", Clamp(raw), TRUE, FALSE, fl)
                 [] d.body = "json" ->
                       Outcome("none", Clamp(RatAdd(Num(-5), IF is_valid_json(ans) THEN Num(10) ELSE Num(0))),
                               TRUE, FALSE, fl)
                 [] d.body = "sycophancy" ->
                       Outcome("none", IF ans = ground_truth THEN Num(5) ELSE Rat(-9, 2), TRUE, FALSE, fl)
                 [] OTHER ->
                       IF ground_truth = None
                          THEN Outcome("TypeError", Num(0), TRUE, FALSE, fl)
                          ELSE Outcome("none", IF Contains(ans, ground_truth) THEN Num(5) ELSE Num(-5),
                                       TRUE, FALSE, fl)

\* reward_solution_file, reward_evaluation, reward_filecontent,
\* reward_check_function: rules on the metadata, which never look for an
\* answer in the completion
FileBody(name, data_source, extra_info, sbx, fl) ==
    LET d == RuleDef(name)
    IN CASE d.body = "solution_file" ->
               IF extra_info.isNone THEN Outcome("TypeError", Num(0), FALSE, FALSE, fl)
               ELSE IF extra_info.fetched = "absent" THEN Outcome("KeyError", Num(0), FALSE, FALSE, fl)
               ELSE Outcome("none", IF extra_info.fetched = "match" THEN Num(1) ELSE Num(0),
                            FALSE, FALSE, fl)
         [] d.body = "evaluation" ->
               Outcome("none",
                       IF ~extra_info.isNone /\ extra_info.fetched # "absent"
                             /\ extra_info.evaluation = "correct = True"
                          THEN Num(5) ELSE Num(-5),
                       FALSE, FALSE, fl)
         [] d.body = "filecontent" ->
               IF FirstShownIn(data_source) = 0
                  THEN Outcome("AssertionError", Num(0), FALSE, FALSE, fl)
                  ELSE Outcome("none",
                               IF ScriptDefinesReward(extra_info)
                                  THEN ScriptReward(extra_info) ELSE Num(-5),
                               FALSE, FALSE, fl)
         [] OTHER ->
               IF extra_info.isNone THEN Outcome("TypeError", Num(0), FALSE, FALSE, fl)
               ELSE IF ~extra_info.check \/ extra_info.fetched = "absent"
                       THEN Outcome("KeyError", Num(0), FALSE, FALSE, fl)
               ELSE IF sbx = "unreachable" THEN Outcome("ConnectionError", Num(0), FALSE, TRUE, fl)
               ELSE IF sbx = "malformed" THEN Outcome("JSONDecodeError", Num(0), FALSE, TRUE, fl)
               ELSE Outcome("none", IF sbx = "true" THEN Num(5) ELSE Num(-5), FALSE, TRUE, fl)

\* a rule that looks for the answer before it tests the descriptor
RunRuleExtractsFirst(name, data_source, solution_str, ground_truth, extra_info, raw, sbx, fl) ==
    IF ~Applicable(name, data_source)
       THEN Outcome("none", Num(0), TRUE, FALSE, fl)
       ELSE CASE RuleDef(name).body = "style" ->
                    StyleBody(name, data_source, extract_answer(solution_str), raw, sbx, fl)
              [] RuleDef(name).body \in {"text", "json", "sycophancy", "math"} ->
                    TextBody(name, extract_answer(solution_str), ground_truth, raw, fl)
              [] OTHER -> FileBody(name, data_source, extra_info, sbx, fl)

\* f(data_source, solution_str, ground_truth, extra_info) for a task-scoped
\* rule f; raw is the style score the rule's heuristic computes for the answer
RunRule(name, data_source, solution_str, ground_truth, extra_info, raw, sbx, fl) ==
    IF ~Applicable(name, data_source)
       THEN Outcome("none", Num(0), FALSE, FALSE, fl)
       ELSE CASE RuleDef(name).body = "style" ->
                    StyleBody(name, data_source, extract_answer(solution_str), raw, sbx, fl)
              [] RuleDef(name).body \in {"text", "json", "sycophancy", "math"} ->
                    TextBody(name, extract_answer(solution_str), ground_truth, raw, fl)
              [] OTHER -> FileBody(name, data_source, extra_info, sbx, fl)

\* ---------------------------------------------------------------------------
\* The universal rules
\* ---------------------------------------------------------------------------
mx == 1000

\* length_reward, on the number of tokens the tokenizer makes of solution_str
length_reward(n_tokens) ==
    IF n_tokens > mx THEN Rat(-Abs(n_tokens - mx), 6000) ELSE Num(0)

\* format_reward(data_source, solution_str)
format_reward(solution_str) ==
    LET sot_split == Split(solution_str, SOT)
        splits == Split(solution_str, EOT)
        all_splits == Split(solution_str, PREFIX)
        all_splits_suffix == Split(solution_str, SUFFIX)
    IN IF solution_str = <<>> \/ Head(solution_str) # SOT \/ Len(sot_split) > 2
          THEN Rat(-3, 3)
          ELSE IF ~Has(solution_str, EOT)
                  THEN Rat(0 - 3, 3)
                  ELSE IF ~Has(splits[2], PREFIX) \/ Has(splits[2], EOT) \/ Len(splits) > 2
                          THEN Rat(1 - 2, 3)
                          ELSE IF \/ ~Has(Split(splits[2], PREFIX)[2], SUFFIX)
                                  \/ Has(Split(splits[2], PREFIX)[2], PREFIX)
                                  \/ Len(all_splits) > 2
                                  \/ Len(all_splits_suffix) > 2
                                  THEN Rat(2 - 1, 3)
                                  ELSE Rat(3, 3)

\* format_reward_approx(data_source, solution_str)
format_reward_approx(solution_str) ==
    Rat(Cardinality({s \in {SOT, EOT, PREFIX, SUFFIX} : Has(solution_str, s)}), 4)

\* f(data_source, solution_str, ...) for a universal rule f
RunUniversal(name, solution_str, n_tokens) ==
    CASE name = "length_reward" -> length_reward(n_tokens)
      [] name = "format_reward" -> format_reward(solution_str)
      [] OTHER -> format_reward_approx(solution_str)

\* ---------------------------------------------------------------------------
\* The aggregation engine: compute_score
\* ---------------------------------------------------------------------------
\* a comprehension that takes every rule whose name occurs in the descriptor
SelectedBySubstring(name, data_source) == Contains(data_source, NameOf(name))

\* the condition of the comprehension that builds comps_unique
Selected(name, data_source) ==
    \/ (Contains(data_source, NameOf(name)) /\ Contains(data_source, <<"memory">>))
    \/ EndsWith(data_source, NameOf(name))

\* the names whose rules compute_score evaluates, in the order of the registry
Matched(data_source) ==
    SelectSeq(reward_functions_varies_per_input, LAMBDA name : Selected(name, data_source))

\* the assertion on data_source: some name of reward_functions occurs in it
Routable(data_source) ==
    \E i \in DOMAIN reward_functions : Contains(data_source, NameOf(reward_functions[i]))

\* get_relevant_metrics(data_source)
get_relevant_metrics(data_source) ==
    {reward_functions[i] : i \in {j \in DOMAIN reward_functions :
                                     Contains(data_source, NameOf(reward_functions[j]))}}

RECURSIVE EvalRules(_, _, _, _, _, _, _, _)
\* the comprehension over the matched rules, one call after the other; an
\* exception in a rule ends the comprehension and leaves compute_score
EvalRules(names, data_source, solution_str, ground_truth, extra_info, raws, sbx, acc) ==
    IF names = <<>> \/ acc.raised # "none"
       THEN acc
       ELSE LET o == RunRule(Head(names), data_source, solution_str, ground_truth,
                             extra_info, raws[Head(names)], sbx, acc.fl)
            IN EvalRules(Tail(names), data_source, solution_str, ground_truth, extra_info, raws, sbx,
                         [raised |-> o.raised,
                          vals |-> IF o.raised = "none" THEN Append(acc.vals, o.val) ELSE acc.vals,
                          calls |-> acc.calls + 1,
                          posts |-> acc.posts + (IF o.posted THEN 1 ELSE 0),
                          fl |-> o.fl])

\* total with the whole sum of the matched rules added, not their mean
TotalNotAveraged(comps_all, comps_unique) ==
    RatAdd(RatSum(comps_all), RatSum(comps_unique))

\* total = sum(comps_all) + sum(v / len(comps_unique) for v in comps_unique)
Total(comps_all, comps_unique) ==
    RatAdd(RatAdd(Num(0), RatSum(comps_all)),
           RatSum([i \in DOMAIN comps_unique |-> RatDiv(comps_unique[i], Len(comps_unique))]))

\* what compute_score comes to when it fails with the exception raised
Failed(raised, data_source, calls, posts, fl) ==
    [raised |-> raised, score |-> Num(0), names |-> <<>>, comps_unique |-> <<>>,
     comps_all |-> <<>>, reward_keys |-> {}, filtered_keys |-> {},
     valid_code |-> FALSE, exception |-> FALSE, timeout |-> FALSE,
     calls |-> calls, posts |-> posts, fl |-> fl]

\* compute_score(data_source, solution_str, ground_truth, extra_info); n_tokens
\* is what the tokenizer makes of solution_str and roll is random.randint(1, 50)
compute_score(data_source, solution_str, ground_truth, extra_info, raws, sbx, n_tokens, roll, fl) ==
    IF data_source = None
       THEN Failed("TypeError", data_source, 0, 0, fl)
    ELSE IF ~Routable(data_source) \/ solution_str = None
       THEN Failed("AssertionError", data_source, 0, 0, fl)
    ELSE LET names == Matched(data_source)
             unique == EvalRules(names, data_source, solution_str, ground_truth, extra_info,
                                 raws, sbx,
                                 [raised |-> "none", vals |-> <<>>, calls |-> 0, posts |-> 0, fl |-> fl])
             comps_all == [i \in DOMAIN reward_functions_all_inputs |->
                              RunUniversal(reward_functions_all_inputs[i], solution_str, n_tokens)]
             relevant_metrics == get_relevant_metrics(data_source)
         IN IF unique.raised # "none"
               THEN Failed(unique.raised, data_source, unique.calls, unique.posts, unique.fl)
            ELSE IF extra_info.isNone
               THEN Failed("TypeError", data_source, unique.calls, unique.posts, unique.fl)
            ELSE IF roll < 2 /\ ~extra_info.prompt
               THEN Failed("KeyError", data_source, unique.calls, unique.posts, unique.fl)
            ELSE [raised |-> "none",
                  score |-> Total(comps_all, unique.vals),
                  names |-> names,
                  comps_unique |-> unique.vals,
                  comps_all |-> comps_all,
                  reward_keys |-> Range(names) \cup Range(reward_functions_all_inputs) \cup {"score"},
                  filtered_keys |-> (Range(names) \cup Range(reward_functions_all_inputs))
                                       \cap relevant_metrics,
                  valid_code |-> unique.fl.valid_code,
                  exception |-> unique.fl.exception,
                  timeout |-> unique.fl.timeout,
                  calls |-> unique.calls, posts |-> unique.posts, fl |-> unique.fl]

\* ---------------------------------------------------------------------------
\* Inputs
\* ---------------------------------------------------------------------------
\* <think>thinking</think><answer>{code}</answer>
wrap_answer(content) == <<SOT, "thinking", EOT, PREFIX>> \o content \o <<SUFFIX>>

Completions ==
    {<<C_TEXT>>, wrap_answer(<<>>), wrap_answer(<<C_PLAIN>>),
     wrap_answer(<<C_FUNC>>), wrap_answer(<<C_JSON>>)}

GroundTruths == {None, <<C_PLAIN>>}

\* extra_info: None, or a dict with some of fetched_files (whose first file
\* is or is not str(ground_truth)), evaluation (a script), the
\* check_function keys, prompt and contains_opposing
NoExtra == [isNone |-> TRUE, fetched |-> "absent", evaluation |-> "absent",
            check |-> FALSE, prompt |-> FALSE, opposing |-> FALSE]
EmptyExtra == [NoExtra EXCEPT !.isNone = FALSE]
PromptExtra == [EmptyExtra EXCEPT !.prompt = TRUE, !.opposing = TRUE]
ExtraInfos ==
    {NoExtra, EmptyExtra,
     [isNone |-> FALSE, fetched |-> "match", evaluation |-> "correct = True",
      check |-> TRUE, prompt |-> TRUE, opposing |-> TRUE],
     [isNone |-> FALSE, fetched |-> "differ", evaluation |-> "reward = 100",
      check |-> TRUE, prompt |-> FALSE, opposing |-> FALSE],
     [isNone |-> FALSE, fetched |-> "match", evaluation |-> "reward = 3",
      check |-> FALSE, prompt |-> TRUE, opposing |-> FALSE]}

\* style scores before the clamp: below the range, inside it, above it
RawScores == {Num(-8), Rat(5, 2), Num(8)}

\* token counts of a completion: below and above mx
TokenCounts == {10, 4000}

\* what the tokenizer can make of a completion: the reasoning of a wrapped
\* completion is of any length, the other texts are a few words
TokenCountsFor(solution_str) ==
    IF solution_str # None /\ Has(solution_str, SOT) THEN TokenCounts ELSE {10}

\* random.randint(1, 50), as far as `< 2` tells the values apart
Rolls == {1, 50}

\* the roll is compared only once extra_info has been used as a dict
RollsFor(extra_info) == IF extra_info.isNone THEN {50} ELSE Rolls

\* descriptors around one rule name; reward_filecontent is configured
\* together with the *_shown rule that it hands to the script
DescriptorsOf(name) ==
    {<<"test/">> \o NameOf(name), <<"wrong/data_source">>, <<"memory", "/">> \o NameOf(name)}
       \cup (IF name = "reward_filecontent"
                THEN {<<"reward_long", "_shown", "/", "reward_filecontent">>} ELSE {})

\* descriptors that name several rules, a universal rule, or a rule followed
\* by a suffix
MixedDescriptors ==
    {<<"wrong/data_source">>,
     <<"reward_loops", "_v2">>,
     <<"reward_json", "_v2">>,
     <<"test/", "length_reward">>,
     <<"memory", "/", "reward_long", "_shown">>,
     <<"memory", "/", "reward_json", "reward_math", "reward_casual">>,
     <<"reward_long", "_shown", "/", "reward_filecontent">>,
     <<"memory", "/", "reward_long", "_shown", "/", "reward_filecontent">>}

\* the rules whose own descriptor compute_score is given: those of reward.py
\* and, of the thirty-two of shown_style_rewards.py that differ in name only,
\* one of each shape
ScoredRules ==
    Range(OwnRules) \cup
       {"reward_snake_case_shown", "reward_docstrings_shown", "reward_comments_shown",
        "reward_long_shown", "reward_loops_shown", "reward_dynamic_typing_shown",
        "reward_modular_shown"}

Descriptors == MixedDescriptors \cup {<<"test/">> \o NameOf(name) : name \in ScoredRules}

\* the bodies of the rules named
BodiesOf(names) == {RuleDef(n).body : n \in names}

\* the arguments the rules named read; those they ignore are held at one value
CompletionsFor(names) ==
    {<<C_TEXT>>, wrap_answer(<<C_FUNC>>)}
       \cup (IF BodiesOf(names) \cap {"style", "text", "json", "sycophancy", "math"} # {}
                THEN {wrap_answer(<<>>), wrap_answer(<<C_PLAIN>>)} ELSE {})
       \cup (IF "style" \in BodiesOf(names) THEN {wrap_answer(<<C_BROKEN>>)} ELSE {})
       \cup (IF "json" \in BodiesOf(names) THEN {wrap_answer(<<C_JSON>>)} ELSE {})

GroundTruthsFor(names) ==
    IF BodiesOf(names) \cap {"sycophancy", "math"} # {} THEN GroundTruths ELSE {<<C_PLAIN>>}

\* a rule computes a style score, and asks the sandbox about the code, only
\* for a completion that has an answer
HasAnswer(solution_str) == solution_str # None /\ extract_answer(solution_str) # None

RawScoresFor(names, solution_str) ==
    {f \in [names -> RawScores] :
        \A n \in names :
           (RuleDef(n).body \notin {"style", "text"} \/ ~HasAnswer(solution_str)) => f[n] = Num(8)}

SandboxOutcomesFor(names, solution_str) ==
    IF "check_function" \in BodiesOf(names) THEN SandboxOutcomes
    ELSE IF "style" \in BodiesOf(names) /\ HasAnswer(solution_str)
            THEN SandboxOutcomes \ {"malformed"}
    ELSE {"true"}

\* what the sandbox can answer for the code of a completion: code that does
\* not parse never runs through
SandboxCanAnswer(solution_str, sbx) ==
    sbx = "true" => (~HasAnswer(solution_str) \/ Parses(extract_answer(solution_str)))

ExtraInfosFor(names) ==
    IF BodiesOf(names) \cap {"solution_file", "evaluation", "filecontent", "check_function"} # {}
       THEN ExtraInfos ELSE {EmptyExtra}

Flags ==
    [timeout |-> timeout, exception |-> exception, valid_code |-> valid_code,
     shown_timeout |-> _timeout, shown_exception |-> _exception,
     shown_valid_code |-> _valid_code]

SetFlags(fl) ==
    /\ timeout' = fl.timeout
    /\ exception' = fl.exception
    /\ valid_code' = fl.valid_code
    /\ _timeout' = fl.shown_timeout
    /\ _exception' = fl.shown_exception
    /\ _valid_code' = fl.shown_valid_code

\* ---------------------------------------------------------------------------
\* Operations
\* ---------------------------------------------------------------------------
\* one rule of the registry is called directly, as the training environment
\* and the tests do
CallRule ==
    /\ call.op = "none"
    /\ \E name \in TaskRules :
       \E data_source \in DescriptorsOf(name),
          solution_str \in CompletionsFor({name}),
          ground_truth \in GroundTruthsFor({name}),
          extra_info \in ExtraInfosFor({name}) :
       \E raws \in RawScoresFor({name}, solution_str),
          sbx \in SandboxOutcomesFor({name}, solution_str) :
          /\ SandboxCanAnswer(solution_str, sbx)
          /\ \E o \in {RunRule(name, data_source, solution_str, ground_truth, extra_info,
                                raws[name], sbx, Flags)} :
               /\ call' = [op |-> "rule", name |-> name, data_source |-> data_source,
                           solution_str |-> solution_str, ground_truth |-> ground_truth,
                           extra_info |-> extra_info, raws |-> raws, sbx |-> sbx,
                           before |-> Flags, out |-> o]
               /\ SetFlags(o.fl)
    /\ UNCHANGED serverVars

\* compute_score is called by the training loop
ComputeScore ==
    /\ call.op = "none"
    /\ \E data_source \in Descriptors \cup {None},
          solution_str \in {<<C_TEXT>>, wrap_answer(<<C_FUNC>>), None} :
       \E names \in {IF data_source = None \/ solution_str = None
                         THEN {} ELSE Range(Matched(data_source))} :
          \E extra_info \in ExtraInfosFor(names) \cup {NoExtra, PromptExtra} :
          \E n_tokens \in TokenCountsFor(solution_str),
             ground_truth \in GroundTruthsFor(names),
             roll \in RollsFor(extra_info),
             raws \in RawScoresFor(names, solution_str),
             sbx \in SandboxOutcomesFor(names, solution_str) \ {"false", "unreachable"} :
          /\ SandboxCanAnswer(solution_str, sbx)
          /\ \E o \in {compute_score(data_source, solution_str, ground_truth, extra_info,
                                      raws, sbx, n_tokens, roll, Flags)} :
               /\ call' = [op |-> "compute_score", name |-> "compute_score",
                           data_source |-> data_source,
                           solution_str |-> solution_str, ground_truth |-> ground_truth,
                           extra_info |-> extra_info, raws |-> raws, sbx |-> sbx,
                           n_tokens |-> n_tokens, roll |-> roll,
                           before |-> Flags, out |-> o]
               /\ SetFlags(o.fl)
    /\ UNCHANGED serverVars

\* the descriptors and codes safe_validate_code is called with
ValidatedDescriptors ==
    {<<"test/">> \o NameOf("reward_long"), <<"wrong/data_source">>,
     <<"memory", "/">> \o NameOf("reward_long"), <<"memory">>}

ValidatedCodes == {<<C_PLAIN>>, <<C_FUNC>>, <<C_BROKEN>>}

\* safe_validate_code of either module is called with a code and a descriptor
CallValidate ==
    /\ call.op = "none"
    /\ \E module \in {"reward", "shown"},
          data_source \in ValidatedDescriptors,
          code_str \in ValidatedCodes,
          sbx \in ValidationOutcomes :
          /\ sbx = "true" => Parses(code_str)
          /\ \E o \in {IF module = "shown"
                           THEN shown_safe_validate_code(data_source, sbx, Flags)
                           ELSE safe_validate_code(data_source, sbx, Flags)} :
               /\ call' = [op |-> "safe_validate_code", name |-> module,
                           data_source |-> data_source, solution_str |-> code_str,
                           sbx |-> sbx, before |-> Flags, out |-> o]
               /\ SetFlags(o.fl)
    /\ UNCHANGED serverVars

\* the caller takes the result; the module globals stay as the call left them
Return ==
    /\ call.op # "none"
    /\ call' = [op |-> "none"]
    /\ UNCHANGED <<timeout, exception, valid_code, _timeout, _exception, _valid_code>>
    /\ UNCHANGED serverVars

Init == ServerInit /\ EngineInit

Next == CallRule \/ ComputeScore \/ Return

Spec == Init /\ [][Next]_vars

\* ---- repeated calls ------------------------------------------------------
\* the same rule is called twice with the same arguments; each call that
\* validates sends its own request, which the sandbox answers on its own
CallRuleTwice ==
    /\ call.op = "none"
    /\ \E name \in TaskRules :
       \E data_source \in DescriptorsOf(name),
          solution_str \in CompletionsFor({name}),
          ground_truth \in GroundTruthsFor({name}),
          extra_info \in ExtraInfosFor({name}) :
       \E raws \in RawScoresFor({name}, solution_str),
          sbx \in SandboxOutcomesFor({name}, solution_str),
          sbx2 \in SandboxOutcomesFor({name}, solution_str) :
          /\ SandboxCanAnswer(solution_str, sbx)
          /\ SandboxCanAnswer(solution_str, sbx2)
          /\ \E o \in {RunRule(name, data_source, solution_str, ground_truth, extra_info,
                                raws[name], sbx, Flags)} :
             \E o2 \in {RunRule(name, data_source, solution_str, ground_truth, extra_info,
                                 raws[name], sbx2, o.fl)} :
               /\ call' = [op |-> "rule_twice", name |-> name, data_source |-> data_source,
                           solution_str |-> solution_str, ground_truth |-> ground_truth,
                           extra_info |-> extra_info, raws |-> raws,
                           sbx |-> sbx, sbx2 |-> sbx2,
                           before |-> Flags, out |-> o, out2 |-> o2]
               /\ SetFlags(o2.fl)
    /\ UNCHANGED serverVars

\* compute_score is called twice with the same arguments, from the same
\* flags and with the same answers of the sandbox; random.randint is drawn
\* anew in each call
ComputeScoreTwice ==
    /\ call.op = "none"
    /\ \E data_source \in {<<"test/">> \o NameOf("reward_long"),
                            <<"test/">> \o NameOf("reward_snake_case_shown"),
                            <<"memory", "/", "reward_long", "_shown">>},
          solution_str \in {<<C_TEXT>>, wrap_answer(<<C_FUNC>>)},
          extra_info \in {EmptyExtra, PromptExtra},
          sbx \in {"true", "timeout"},
          roll \in Rolls,
          roll2 \in Rolls :
          \E outs \in {[r \in {roll, roll2} |->
                           compute_score(data_source, solution_str, <<C_PLAIN>>, extra_info,
                                         [name \in TaskRules |-> Rat(5, 2)], sbx, 10, r, Flags)]} :
             /\ call' = [op |-> "compute_score_twice", name |-> "compute_score",
                         data_source |-> data_source, solution_str |-> solution_str,
                         extra_info |-> extra_info, sbx |-> sbx,
                         roll |-> roll, roll2 |-> roll2,
                         before |-> Flags, out |-> outs[roll], out2 |-> outs[roll2]]
             /\ SetFlags(outs[roll2].fl)
    /\ UNCHANGED serverVars

RepeatNext == CallRuleTwice \/ ComputeScoreTwice \/ Return

RepeatSpec == Init /\ [][RepeatNext]_vars

\* ---- the counting style rules --------------------------------------------
\* answers of at most MaxStmts statements out of stmts
AnswersOf(stmts) == UNION {[1..n -> stmts] : n \in 0..MaxStmts}

\* reward_loops is called on a completion with a closed think block
CallLoops ==
    /\ call.op = "none"
    /\ \E data_source \in DescriptorsOf("reward_loops"),
          ans \in AnswersOf({S_LOOP, S_COMP, S_MAP}),
          sbx \in SandboxOutcomes \ {"malformed"} :
          \E o \in {RunRule("reward_loops", data_source, wrap_answer(ans), None, EmptyExtra,
                             loops_score(ans), sbx, Flags)} :
             /\ call' = [op |-> "rule", name |-> "reward_loops", data_source |-> data_source,
                         solution_str |-> wrap_answer(ans), ground_truth |-> None,
                         extra_info |-> EmptyExtra, sbx |-> sbx,
                         before |-> Flags, out |-> o]
             /\ SetFlags(o.fl)
    /\ UNCHANGED serverVars

\* a function of Analyzers is called on a code string
CallAnalyzer ==
    /\ call.op = "none"
    /\ \E fn \in Analyzers,
          code_str \in {<<C_PLAIN>>, <<C_FUNC>>, <<S_LOOP>>, <<S_TERNARY, S_IF>>,
                        <<C_BROKEN>>, <<C_PLAIN, C_BROKEN>>, <<C_DEEP>>} :
          call' = [op |-> "analyzer", name |-> fn, solution_str |-> code_str,
                   before |-> Flags, out |-> analyze(fn, code_str)]
    /\ UNCHANGED <<serverVars, timeout, exception, valid_code,
                   _timeout, _exception, _valid_code>>

\* the two rules of the ternary / if-else pair are called on one answer,
\* each with the descriptor that ends with its own name
CallOpposingPair ==
    /\ call.op = "none"
    /\ \E ans \in AnswersOf({S_TERNARY, S_IF}),
          sbx \in {"true", "false"} :
          \E o \in {RunRule("reward_ternary_shown",
                             <<"test/">> \o NameOf("reward_ternary_shown"),
                             wrap_answer(ans), None, EmptyExtra,
                             ternary_score(ans), sbx, Flags)} :
          \E o2 \in {RunRule("reward_if_else_blocks_shown",
                              <<"test/">> \o NameOf("reward_if_else_blocks_shown"),
                              wrap_answer(ans), None, EmptyExtra,
                              if_else_blocks_score(ans), sbx, o.fl)} :
             /\ call' = [op |-> "opposing", name |-> "reward_ternary_shown",
                         name2 |-> "reward_if_else_blocks_shown",
                         solution_str |-> wrap_answer(ans), sbx |-> sbx,
                         ternary_count |-> count_ternary_expressions(ans),
                         if_count |-> count_if_statements(ans),
                         before |-> Flags, out |-> o, out2 |-> o2]
             /\ SetFlags(o2.fl)
    /\ UNCHANGED serverVars

StyleNext == CallLoops \/ CallAnalyzer \/ CallOpposingPair \/ Return

StyleSpec == Init /\ [][StyleNext]_vars

\* ---- two evaluations of compute_score in one process ----------------------
\* what the two calls are given
PairInputs ==
    [data_source : {<<"test/">> \o NameOf("reward_long"),
                    <<"test/">> \o NameOf("reward_snake_case_shown"),
                    <<"memory", "/", "reward_long", "_shown">>},
     solution_str : {wrap_answer(<<C_FUNC>>)},
     sbx : {"true", "timeout"}]

\* the style score of the answer of a pair input, the same for every rule
PairRaws == [name \in TaskRules |-> Rat(5, 2)]

\* both calls have passed their assertions and selected their rules
StartPair ==
    /\ call.op = "none"
    /\ \E a \in PairInputs, b \in PairInputs :
          call' = [op |-> "pair", before |-> Flags,
                   evals |-> [k \in {1, 2} |->
                      LET in == IF k = 1 THEN a ELSE b
                      IN [data_source |-> in.data_source, solution_str |-> in.solution_str,
                          sbx |-> in.sbx, todo |-> Matched(in.data_source),
                          pending |-> [has |-> FALSE, name |-> "none", val |-> Num(0)],
                          vals |-> <<>>, stage |-> "rules", score |-> Num(0),
                          valid_code |-> FALSE, exception |-> FALSE, timeout |-> FALSE]]]
    /\ UNCHANGED <<serverVars, timeout, exception, valid_code,
                   _timeout, _exception, _valid_code>>

\* call k runs its next rule up to the return statement: the rule has
\* validated, set the flags of its module and holds its result in a local
RunNextRule(k) ==
    /\ call.op = "pair"
    /\ call.evals[k].stage = "rules"
    /\ call.evals[k].todo # <<>>
    /\ ~call.evals[k].pending.has
    /\ LET e == call.evals[k]
       IN \E o \in {RunRule(Head(e.todo), e.data_source, e.solution_str, <<C_PLAIN>>,
                             PromptExtra, PairRaws[Head(e.todo)], e.sbx, Flags)} :
             /\ call' = [call EXCEPT !.evals[k].todo = Tail(e.todo),
                                     !.evals[k].pending =
                                        [has |-> TRUE, name |-> Head(e.todo), val |-> o.val]]
             /\ SetFlags(o.fl)
    /\ UNCHANGED serverVars

\* a rule that decides on the flag of its module when it returns
CollectResultFromFlags(k) ==
    /\ call.op = "pair"
    /\ call.evals[k].pending.has
    /\ LET e == call.evals[k]
           d == RuleDef(e.pending.name)
           valid == IF d.module = "shown" THEN _valid_code ELSE valid_code
       IN call' = [call EXCEPT !.evals[k].pending.has = FALSE,
                               !.evals[k].vals =
                                  Append(@, IF d.body = "style" /\ ~valid
                                               THEN Num(-5) ELSE e.pending.val)]
    /\ UNCHANGED <<serverVars, timeout, exception, valid_code,
                   _timeout, _exception, _valid_code>>

\* the rule returns and its value enters comps_unique of call k
CollectResult(k) ==
    /\ call.op = "pair"
    /\ call.evals[k].pending.has
    /\ call' = [call EXCEPT !.evals[k].pending.has = FALSE,
                            !.evals[k].vals = Append(@, call.evals[k].pending.val)]
    /\ UNCHANGED <<serverVars, timeout, exception, valid_code,
                   _timeout, _exception, _valid_code>>

\* call k evaluates the universal rules, sums up and reads the flags of
\* reward.py into its record
FinishScore(k) ==
    /\ call.op = "pair"
    /\ call.evals[k].stage = "rules"
    /\ call.evals[k].todo = <<>>
    /\ ~call.evals[k].pending.has
    /\ LET e == call.evals[k]
           comps_all == [i \in DOMAIN reward_functions_all_inputs |->
                            RunUniversal(reward_functions_all_inputs[i], e.solution_str, 10)]
       IN call' = [call EXCEPT !.evals[k].stage = "done",
                               !.evals[k].score = Total(comps_all, e.vals),
                               !.evals[k].valid_code = valid_code,
                               !.evals[k].exception = exception,
                               !.evals[k].timeout = timeout]
    /\ UNCHANGED <<serverVars, timeout, exception, valid_code,
                   _timeout, _exception, _valid_code>>

\* both callers have their records
ReturnBoth ==
    /\ call.op = "pair"
    /\ \A k \in {1, 2} : call.evals[k].stage = "done"
    /\ call' = [op |-> "none"]
    /\ UNCHANGED <<serverVars, timeout, exception, valid_code,
                   _timeout, _exception, _valid_code>>

InterleaveNext ==
    \/ StartPair
    \/ \E k \in {1, 2} : RunNextRule(k) \/ CollectResult(k) \/ FinishScore(k)
    \/ ReturnBoth

InterleaveSpec == Init /\ [][InterleaveNext]_vars

\* ---- extract_answer on its own -------------------------------------------
\* the completions extract_answer is applied to: every text of at most MaxLen
\* tokens over the delimiters it looks for and one piece of content
Alphabet == {EOT, PREFIX, SUFFIX, ANSWER_EQ, OTHER_PREFIX, OTHER_SUFFIX, C_PLAIN}

Texts == UNION {[1..n -> Alphabet] : n \in 0..MaxLen}

\* a completion arrives; the module globals are as imported
ExtractInit ==
    /\ ServerInit
    /\ timeout = FALSE
    /\ exception = FALSE
    /\ valid_code = FALSE
    /\ _timeout = FALSE
    /\ _exception = FALSE
    /\ _valid_code = FALSE
    /\ \E text \in Texts : call = [op |-> "none", solution_str |-> text]

\* extract_answer(solution_str) is called and returns
CallExtract ==
    /\ call.op = "none"
    /\ call' = [op |-> "extract_answer", solution_str |-> call.solution_str,
                out |-> extract_answer(call.solution_str)]
    /\ UNCHANGED <<serverVars, timeout, exception, valid_code,
                   _timeout, _exception, _valid_code>>

ExtractNext == CallExtract

ExtractSpec == ExtractInit /\ [][ExtractNext]_vars

\* safe_validate_code called on its own, as the tests of the sandbox do
ValidateNext == CallValidate \/ Return

ValidateSpec == Init /\ [][ValidateNext]_vars

\* ---------------------------------------------------------------------------
\* C1: a request whose code never terminates always completes with the
\* timeout response; the worker is force-killed only after terminate() was
\* called and it was still alive, and the server never waits without a timeout.
C1_LoopAlwaysTimesOut ==
    /\ \A r \in Reqs : (srv[r] # "idle" /\ code[r] = "loop")
                          ~> (srv[r] = "done" /\ response[r] = TimeoutResponse)
    /\ [](\A r \in Reqs : killSent[r] => (termSent[r] /\ grace[r] = "expired"))

C1_Witness ==
    \E r \in Reqs : /\ code[r] = "loop"
                    /\ killSent[r]
                    /\ srv[r] = "done"
                    /\ response[r] = TimeoutResponse

\* The rules of the registry that score the fetched files or the metadata
\* and never read the completion.
C4_MetadataRules ==
    {"reward_solution_file", "reward_evaluation", "reward_filecontent", "reward_check_function"}

\* C2: the score of a returned record is the plain sum of the three
\* universal outputs plus the sum of the matched rules' outputs divided by
\* their number (the universal sum alone when no rule matched); the
\* universal outputs are those of the rules on the completion, whatever the
\* descriptor.
C2_ScoreIsUniversalSumPlusMean ==
    (call.op = "compute_score" /\ call.out.raised = "none") =>
        /\ Len(call.out.comps_all) = 3
        /\ \A i \in 1..3 :
              call.out.comps_all[i] =
                 RunUniversal(reward_functions_all_inputs[i], call.solution_str, call.n_tokens)
        /\ Len(call.out.comps_unique) = Len(call.out.names)
        /\ call.out.score =
              IF Len(call.out.comps_unique) = 0
                 THEN RatSum(call.out.comps_all)
                 ELSE RatAdd(RatSum(call.out.comps_all),
                             RatDiv(RatSum(call.out.comps_unique), Len(call.out.comps_unique)))

\* two matched rules with different outputs, one universal output not zero
C2_Witness ==
    /\ call.op = "compute_score"
    /\ call.out.raised = "none"
    /\ Len(call.out.comps_unique) = 2
    /\ call.out.comps_unique[1] # call.out.comps_unique[2]
    /\ call.out.comps_all[1] # Num(0)
    /\ call.out.score =
          RatAdd(RatSum(call.out.comps_all),
                 RatDiv(RatAdd(call.out.comps_unique[1], call.out.comps_unique[2]), 2))

\* C3: a rule of shown_style_reward_functions, called with a matching
\* descriptor and a completion that has an answer, returns -5 whenever
\* validation reports the answer invalid.
C3_InvalidAnswerGetsFloor ==
    ( /\ call.op = "rule"
      /\ call.name \in ShownRules
      /\ Applicable(call.name, call.data_source)
      /\ extract_answer(call.solution_str) # None
      /\ ~shown_safe_validate_code(call.data_source, call.sbx, call.before).ret )
    => (call.out.raised = "none" /\ call.out.val = Num(-5))

\* C4 as stated: every task-scoped rule whose descriptor matches returns -5
\* for a completion without an extractable answer.
C4_NoAnswerGetsFloor ==
    ( /\ call.op = "rule"
      /\ Applicable(call.name, call.data_source)
      /\ extract_answer(call.solution_str) = None )
    => (call.out.raised = "none" /\ call.out.val = Num(-5))

\* C4: every task-scoped rule that reads the completion (all but the four
\* rules on fetched files and metadata) returns -5, with a matching
\* descriptor, for a completion without an extractable answer.
C4_NoAnswerGetsFloorFromAnswerRules ==
    ( /\ call.op = "rule"
      /\ call.name \notin C4_MetadataRules
      /\ Applicable(call.name, call.data_source)
      /\ extract_answer(call.solution_str) = None )
    => (call.out.raised = "none" /\ call.out.val = Num(-5) /\ ~call.out.posted)

C4_Witness ==
    /\ call.op = "rule"
    /\ call.name = "reward_snake_case_shown"
    /\ Applicable(call.name, call.data_source)
    /\ call.solution_str = <<C_TEXT>>
    /\ call.raws[call.name] = Num(8)
    /\ call.out.val = Num(-5)

\* C5: every task-scoped rule returns a value within [-5, 5].
C5_RuleWithinRange ==
    (call.op = "rule" /\ call.out.raised = "none") =>
        (~RatLess(call.out.val, Num(-5)) /\ ~RatLess(Num(5), call.out.val))

\* C6: a task-scoped rule called with a descriptor its own applicability
\* test rejects returns 0 without raising, without extracting an answer,
\* without a request to a sandbox, and leaves all diagnostic flags as they
\* were.
C6_InapplicableIsNeutral ==
    (call.op = "rule" /\ ~Applicable(call.name, call.data_source)) =>
        /\ call.out.raised = "none"
        /\ call.out.val = Num(0)
        /\ ~call.out.extracted
        /\ ~call.out.posted
        /\ Flags = call.before

\* a rejected call made when an earlier call had set flags
C6_Witness ==
    /\ call.op = "rule"
    /\ ~Applicable(call.name, call.data_source)
    /\ extract_answer(call.solution_str) # None
    /\ call.before.valid_code
    /\ call.before.shown_timeout
    /\ call.out.val = Num(0)

\* C7: compute_score fails with an assertion error, before any rule, when
\* the descriptor matches no rule; a record is never returned with zero
\* matched task-scoped rules.
C7_NoRecordWithoutMatchedRule ==
    (call.op = "compute_score" /\ call.data_source # None /\ call.solution_str # None
        /\ Matched(call.data_source) = <<>>)
    => (call.out.raised = "AssertionError" /\ call.out.calls = 0)

\* C8: compute_score fails with an assertion error, before any rule and
\* any request to a sandbox, when the completion or the descriptor is not a
\* string.
C8_NonStringArgumentAsserts ==
    (call.op = "compute_score" /\ (call.data_source = None \/ call.solution_str = None))
    => (call.out.raised = "AssertionError" /\ call.out.calls = 0 /\ call.out.posts = 0)

\* C9 as stated: every call that returns a record has evaluated every
\* task-scoped rule and reports reward/<name> for every registered rule.
C9_EveryRuleEvaluated ==
    (call.op = "compute_score" /\ call.out.raised = "none") =>
        /\ call.out.calls = Len(reward_functions_varies_per_input)
        /\ Range(reward_functions) \subseteq call.out.reward_keys

\* C9: a call that returns a record has evaluated exactly the task-scoped
\* rules whose name ends the descriptor or, for a descriptor that contains
\* "memory", occurs in it; it reports reward/<name> for exactly these rules,
\* the three universal rules and the score.
C9_OnlySelectedRulesEvaluated ==
    (call.op = "compute_score" /\ call.out.raised = "none") =>
        LET sel == {n \in TaskRules :
                       \/ EndsWith(call.data_source, NameOf(n))
                       \/ /\ Contains(call.data_source, <<"memory">>)
                          /\ Contains(call.data_source, NameOf(n))}
        IN /\ call.out.calls = Cardinality(sel)
           /\ Range(call.out.names) = sel
           /\ call.out.reward_keys =
                 sel \cup {"length_reward", "format_reward", "format_reward_approx", "score"}

\* a record for a descriptor that one rule of fifty matches
C9_Witness ==
    /\ call.op = "compute_score"
    /\ call.out.raised = "none"
    /\ call.data_source = <<"test/", "reward_loops">>
    /\ call.out.calls = 1
    /\ call.out.reward_keys =
          {"reward_loops", "length_reward", "format_reward", "format_reward_approx", "score"}

\* C10: code that completes without raising before the budget expires is
\* answered {status: true}, under every interleaving of worker and server.
C10_OkInBudgetAnsweredTrue ==
    \A r \in Reqs : (srv[r] = "done" /\ code[r] = "ok" /\ inBudget[r])
                       => response[r] = OkResult

\* C11: when receive_message returns for a worker that ended before the budget
\* expired, the response is the process_crashed report if the worker's queue
\* is empty, and exactly the result the worker put otherwise.
C11_EndedWorkerAnsweredFromQueue ==
    [][\A r \in Reqs :
          (srv[r] # "done" /\ srv'[r] = "done" /\ budget[r] = "running" /\ ~is_alive(r))
             => response'[r] = (IF result_queue[r] = <<>>
                                   THEN CrashResponse
                                   ELSE Head(result_queue[r]))]_vars

C11_Witness ==
    \E r \in Reqs :
        /\ srv[r] = "done" /\ budget[r] = "running"
        /\ code[r] = "raise" /\ process[r] = "dead"
        /\ response[r] = ErrResult

\* C12: a response that the caller records as a timeout is only returned when
\* the worker was still running at the expiry of the budget, and never for
\* code whose execution ended within the budget.
C12_TimeoutOnlyOverBudget ==
    \A r \in Reqs :
        (srv[r] = "done" /\ records_timeout(response[r]))
           => (budget[r] = "expired" /\ ~inBudget[r])

\* C13: once receive_message has returned its response, the worker of that
\* call is no longer running, whatever the outcome.
C13_WorkerStoppedAtReturn ==
    \A r \in Reqs : srv[r] = "done" => ~is_alive(r)

\* C14: with several requests in flight, every step of the server or of a
\* worker touches the worker, queue and response of one request only, and the
\* response of a request is the one its own code leads to: a result only if
\* its own worker put that result, a crash report only if its own worker
\* ended without a result, a timeout only if its own budget expired.
C14_ResponseFromOwnWorker ==
    [][/\ \A r \in Reqs :
             srv'[r] = "done" =>
                /\ response'[r] = OkResult => code'[r] = "ok"
                /\ response'[r] = ErrResult => code'[r] = "raise"
                /\ response'[r] = CrashResponse => code'[r] = "exit"
                /\ response'[r] = TimeoutResponse => budget'[r] = "expired"
                /\ code'[r] = "loop" => response'[r] = TimeoutResponse
       /\ \A r \in Reqs : \A q \in Reqs \ {r} :
             \/ <<code[r], srv[r], process[r], result_queue[r], budget[r], grace[r],
                  termSent[r], killSent[r], response[r], inBudget[r]>>'
                = <<code[r], srv[r], process[r], result_queue[r], budget[r], grace[r],
                    termSent[r], killSent[r], response[r], inBudget[r]>>
             \/ <<code[q], srv[q], process[q], result_queue[q], budget[q], grace[q],
                  termSent[q], killSent[q], response[q], inBudget[q]>>'
                = <<code[q], srv[q], process[q], result_queue[q], budget[q], grace[q],
                    termSent[q], killSent[q], response[q], inBudget[q]>>]_vars

C14_Witness ==
    \E r \in Reqs, q \in Reqs :
        /\ r # q
        /\ srv[r] = "done" /\ response[r] = OkResult
        /\ srv[q] = "check_alive_again" /\ code[q] = "loop" /\ is_alive(q)

\* C15: safe_validate_code of either module, called with a descriptor that is
\* a string of a validated task family: when the sandbox cannot be reached,
\* does not answer in time, or answers with a body that is not JSON, has no
\* status or has a status that is not a bool, the call returns False and
\* raises nothing.
C15_FailedContactIsInvalid ==
    (/\ call.op = "safe_validate_code"
     /\ ~Contains(call.data_source, non_code_envs)
     /\ call.sbx \in {"unreachable", "request_timeout", "malformed",
                       "no_status", "non_bool_status"})
       => (call.out.raised = "none" /\ call.out.ret = FALSE /\ call.out.posted)

C15_Witness ==
    /\ call.op = "safe_validate_code"
    /\ call.name = "reward"
    /\ ~Contains(call.data_source, non_code_envs)
    /\ call.sbx = "non_bool_status"
    /\ call.out.ret = FALSE
    /\ exception

\* C16: reward_check_function, called with a matching descriptor and the
\* metadata it reads, returns -5 when the execution endpoint cannot be
\* reached or answers with a body that is not JSON; it raises nothing.
C16_CheckFunctionFailureIsFloor ==
    (/\ call.op = "rule"
     /\ call.name = "reward_check_function"
     /\ EndsWith(call.data_source, NameOf("reward_check_function"))
     /\ ~call.extra_info.isNone
     /\ call.extra_info.check
     /\ call.extra_info.fetched # "absent"
     /\ call.sbx \in {"unreachable", "malformed"})
       => (call.out.raised = "none" /\ call.out.val = Num(-5))

\* C17: for a descriptor that contains "memory", safe_validate_code of either
\* module returns True whatever the code is and whatever the sandbox would
\* answer, and sends no request.
C17_MemoryIsValidWithoutRequest ==
    (call.op = "safe_validate_code" /\ Contains(call.data_source, non_code_envs))
       => (call.out.raised = "none" /\ call.out.ret = TRUE /\ ~call.out.posted)

C17_Witness ==
    /\ call.op = "safe_validate_code"
    /\ call.name = "reward"
    /\ Contains(call.data_source, non_code_envs)
    /\ call.solution_str = <<C_BROKEN>>
    /\ call.sbx = "unreachable"
    /\ call.out.ret = TRUE

\* C18: extract_answer returns None whenever, in the text after the last
\* think-closing delimiter, no opening delimiter is followed by a closing
\* delimiter; text before the first opening delimiter is never the answer.
C18_NoPairingIsAbsent ==
    call.op = "extract_answer" =>
       LET text == call.solution_str
           scope == IF Has(text, EOT) THEN At(Split(text, EOT), -1) ELSE text
           paired == \E i \in 1..Len(scope), j \in 1..Len(scope) :
                        i < j /\ scope[i] = PREFIX /\ scope[j] = SUFFIX
       IN ~paired => call.out = None

\* C19: when, in the text after the last think-closing delimiter, an opening
\* delimiter is followed by a closing delimiter before the next opening
\* delimiter, extract_answer returns text of the LAST such opening delimiter:
\* a part of what stands between it and the next opening delimiter, and
\* exactly what precedes the closing delimiter when no fence and no "answer="
\* stands there.
C19_LastPairingWins ==
    call.op = "extract_answer" =>
       LET text == call.solution_str
           scope == IF Has(text, EOT) THEN At(Split(text, EOT), -1) ELSE text
           pieces == Split(scope, PREFIX)
           hits == {k \in 2..Len(pieces) : Has(pieces[k], SUFFIX)}
       IN hits # {} =>
             LET last == pieces[CHOOSE k \in hits : \A j \in hits : j <= k]
             IN /\ call.out # None
                /\ Contains(last, call.out)
                /\ (~Has(last, OTHER_PREFIX) /\ ~Has(last, ANSWER_EQ))
                      => call.out = Split(last, SUFFIX)[1]

C19_Witness ==
    /\ call.op = "extract_answer"
    /\ call.solution_str = <<PREFIX, C_PLAIN, SUFFIX, PREFIX, SUFFIX>>
    /\ call.out = <<>>

\* C20: extract_answer returns None whenever the text after the last
\* think-closing delimiter (the whole completion without one) holds no
\* opening delimiter; an answer inside the reasoning is not extracted.
C20_NoPrefixInScopeIsAbsent ==
    call.op = "extract_answer" =>
       LET text == call.solution_str
           last_eot == IF Has(text, EOT)
                          THEN CHOOSE i \in 1..Len(text) :
                                  text[i] = EOT /\ \A j \in (i + 1)..Len(text) : text[j] # EOT
                          ELSE 0
       IN (\A j \in (last_eot + 1)..Len(text) : text[j] # PREFIX) => call.out = None

C20_Witness ==
    /\ call.op = "extract_answer"
    /\ call.solution_str = <<PREFIX, C_PLAIN, SUFFIX, EOT, C_PLAIN>>
    /\ call.out = None

\* C21: an answer that extract_answer returns is text that stands between the
\* opening delimiter it selected and the first closing delimiter after it; it
\* holds no closing delimiter and nothing that follows the closing delimiter.
C21_AnswerIsBeforeSuffix ==
    (call.op = "extract_answer" /\ call.out # None) =>
       LET text == call.solution_str
           scope == IF Has(text, EOT) THEN At(Split(text, EOT), -1) ELSE text
           selected == Retreat(Split(scope, PREFIX), -1)
       IN /\ ~Has(call.out, SUFFIX)
          /\ Contains(Split(selected, SUFFIX)[1], call.out)

\* C22: in a record that compute_score returns after its matched rules (all of
\* them style rules, the last one reaching its validation) validated the
\* answer, other_metrics/valid_code is what the last validation returned,
\* other_metrics/code_execution_timeout says whether it timed out and
\* other_metrics/exception_in_run_code whether it raised; this for rules of
\* both modules and for descriptors of the always-valid family.
C22_FlagsDescribeLastValidation ==
    (/\ call.op = "compute_score"
     /\ call.out.raised = "none"
     /\ call.out.names # <<>>
     /\ HasAnswer(call.solution_str)
     /\ \A i \in DOMAIN call.out.names :
           LET d == RuleDef(call.out.names[i])
               ans == extract_answer(call.solution_str)
           IN /\ d.body = "style"
              /\ TextLen(ans) >= d.minLen
              /\ ~(d.neutral = "functions" /\ total_functions(ans) = 0)
              /\ ~(d.neutral = "code_lines" /\ code_lines(ans) = 0))
       => LET always_valid == Contains(call.data_source, non_code_envs)
              last == RuleDef(call.out.names[Len(call.out.names)])
          IN /\ call.out.valid_code = (always_valid \/ call.sbx = "true")
             /\ call.out.timeout = (~always_valid /\ call.sbx = "timeout")
             /\ call.out.exception = (/\ ~always_valid
                                      /\ last.module = "reward"
                                      /\ RaisedBy(call.sbx) # "none")

\* C23: a task-scoped rule called twice with the same descriptor, completion,
\* reference answer and metadata returns the same score both times (or fails
\* the same way), also when it validates the answer through the sandbox.
C23_RuleIsIdempotent ==
    call.op = "rule_twice" =>
       (call.out.raised = call.out2.raised /\ call.out.val = call.out2.val)

\* C24: reward_loops, called with a descriptor that ends in reward_loops and a
\* completion with a closed think block whose answer holds exactly one loop,
\* no comprehension and no map/filter call, returns a strictly positive score
\* when the sandbox reports the code valid and -5 when it reports it invalid.
C24_OneLoopScoresPositive ==
    (/\ call.op = "rule"
     /\ call.name = "reward_loops"
     /\ EndsWith(call.data_source, NameOf("reward_loops"))
     /\ HasAnswer(call.solution_str)
     /\ count_loops(extract_answer(call.solution_str)) = 1
     /\ count_comprehensions(extract_answer(call.solution_str)) = 0
     /\ map_filter_count(extract_answer(call.solution_str)) = 0
     /\ call.sbx \in {"true", "false"})
       => /\ call.out.raised = "none"
          /\ call.sbx = "true" => RatLess(Num(0), call.out.val)
          /\ call.sbx = "false" => call.out.val = Num(-5)

\* C25: a function of the code feature analyzers, given a code string that
\* does not parse, raises nothing and returns a boolean or a count >= 0.
C25_AnalyzersNeverRaise ==
    (call.op = "analyzer" /\ ~Parses(call.solution_str))
       => (call.out.raised = "none" /\ (call.out.isBool \/ call.out.count >= 0))

\* C26: of two compute_score calls that run interleaved in one process, each
\* ends with the score and the per-rule values that compute_score gives for
\* its arguments when it runs alone; only the flags in the records may differ.
C26_InterleavedScoresAsAlone ==
    call.op = "pair" =>
       \A k \in {1, 2} :
          call.evals[k].stage = "done" =>
             LET e == call.evals[k]
                 alone == compute_score(e.data_source, e.solution_str, <<C_PLAIN>>, PromptExtra,
                                        PairRaws, e.sbx, 10, 50, call.before)
             IN /\ alone.raised = "none"
                /\ e.score = alone.score
                /\ e.vals = alone.comps_unique

C26_Witness ==
    /\ call.op = "pair"
    /\ \A k \in {1, 2} : call.evals[k].stage = "done"
    /\ call.evals[1].data_source = <<"test/">> \o NameOf("reward_long")
    /\ call.evals[2].data_source = <<"test/">> \o NameOf("reward_long")
    /\ call.evals[1].sbx = "true" /\ call.evals[2].sbx = "timeout"
    /\ call.evals[1].vals = <<Rat(5, 2)>> /\ call.evals[2].vals = <<Num(-5)>>
    /\ ~call.evals[1].valid_code /\ call.evals[1].timeout

\* C27: in every call of compute_score that returns a record, a task-scoped
\* rule is among the rules evaluated and averaged exactly when the rule's own
\* test of the descriptor accepts it.
C27_MatchedIffApplicable ==
    (call.op = "compute_score" /\ call.out.raised = "none")
       => \A name \in TaskRules :
             (name \in Range(call.out.names)) <=> Applicable(name, call.data_source)

\* C28: two calls of compute_score with the same arguments, from the same
\* flags and with the same answers of the sandbox, end the same way: the same
\* record or the same failure, also when the metadata has no prompt entry.
C28_ComputeScoreIsDeterministic ==
    call.op = "compute_score_twice" => call.out = call.out2

\* C29: compute_score called with a routable descriptor and a string
\* completion but without metadata (extra_info left at None) returns a
\* record.
C29_NoMetadataReturnsRecord ==
    (/\ call.op = "compute_score"
     /\ call.data_source # None
     /\ Routable(call.data_source)
     /\ call.solution_str # None
     /\ call.extra_info.isNone)
       => call.out.raised = "none"

\* C30: for every answer whose code validates, reward_ternary_shown and
\* reward_if_else_blocks_shown, each called with its own descriptor, are not
\* both strictly positive.
C30_OpposingRulesNotBothPositive ==
    (/\ call.op = "opposing"
     /\ call.sbx = "true"
     /\ call.out.raised = "none"
     /\ call.out2.raised = "none")
       => ~(RatLess(Num(0), call.out.val) /\ RatLess(Num(0), call.out2.val))

====
